---- MODULE Spec2Model ----
(***************************************************************************)
(* A model of the proof-of-work ledger of src/block.py, src/blockchain.py  *)
(* and the request handlers of src/api.py that drive it.                   *)
(*                                                                         *)
(* A digest is kept as the hex string the code stores (a sequence of hex   *)
(* digits) together with the input it was computed from. The 64 digits of  *)
(* SHA-256 are scaled down to HexLen digits, computed by a fixed mixing    *)
(* function of the five inputs block.py feeds it; the digits decide every  *)
(* comparison with the difficulty target. Two digests are the same string  *)
(* only if they were computed from the same input (SHA-256 is taken to be  *)
(* free of collisions), which the scaled-down digits alone cannot express. *)
(***************************************************************************)
EXTENDS Integers, Sequences, FiniteSets, TLC

\* ------------------------------------------------------------------ bounds
\* hex digits of a digest (64 for SHA-256)
HexLen == 1
\* difficulties the ledger is constructed with: 0..MaxDifficulty
MaxDifficulty == 2
\* mine_next is not called once the chain holds MaxChain blocks, or ends in
\* the MaxChain-th of the blocks mined here one on the other
MaxChain == 3
\* submit is not called once MaxPending records are pending
MaxPending == 3
\* nor, where peers or audits are served too, once MaxQueued are
MaxQueued == 1
\* datetime.now() never exceeds MaxClock
MaxClock == 1
\* a peer reports a length in 0..MaxReported
MaxReported == 4
\* mine() inside /verify does not raise a nonce beyond MaxNonce
MaxNonce == 4
\* /verify is not called more than MaxAudits times
MaxAudits == 2
\* where /verify is served on both threads, mine_next is not called once
\* the chain holds MaxAudited blocks
MaxAudited == 2
\* update() is not called on a hash object that was fed MaxFed times
MaxFed == 2
\* a hash object is at one of the addresses 0 .. MaxAddress
MaxAddress == 1

VARIABLES
    difficulty,          \* Blockchain.difficulty
    chain,               \* Blockchain.chain: sequence of blocks
    pending_power_data,  \* Blockchain.pending_power_data: sequence of records
    nodes,               \* Blockchain.nodes: set of netlocs
    clock,               \* the last value datetime.now() returned
    last,                \* the last handler that ran and what it returned
    audit,               \* the body of the answer, where /verify ran last
    audits,              \* the number of requests to /verify that were begun
    thread               \* per request thread: the handler it is in, where, and its locals

vars == <<difficulty, chain, pending_power_data, nodes, clock, last, audit, audits,
          thread>>

\* ------------------------------------------------------------- hex digests
HashBits == 4 * HexLen
HashSpace == 2 ^ HashBits

\* hexdigest(): the digest value n as HexLen hex digits, most significant first
HexDigest(n) == [i \in 1..HexLen |-> (n \div (16 ^ (HexLen - i))) % 16]

RECURSIVE IntOfDigits(_)
IntOfDigits(s) ==
    IF s = <<>> THEN 0
    ELSE 16 * IntOfDigits(SubSeq(s, 1, Len(s) - 1)) + s[Len(s)]

\* int(s, 16) of a stored digest
IntOfHex(hashid) == IntOfDigits(hashid.digits)

RECURSIVE SumSeq(_)
SumSeq(s) == IF s = <<>> THEN 0 ELSE s[1] + SumSeq(Tail(s))

\* the node identifiers in use, as numbers
NodeCode(node_id) ==
    CASE node_id = "genesis" -> 1
      [] node_id = "n1" -> 2
      [] node_id = "n2" -> 3
      [] OTHER -> 0

\* str(hashable_data): the serialised record, as the number the digest mixes in
HashableData(power_data) ==
      power_data.timestamp
    + 2 * SumSeq(power_data.voltage_vector)
    + 3 * SumSeq(power_data.current_vector)
    + 5 * SumSeq(power_data.power_vector)
    + NodeCode(power_data.node_id)
    + Cardinality(power_data.metadata)

\* a hashid that is still the hash object: /verify puts sha256() in the
\* place of the hex string while it recomputes
IsObject(hashid) == "sha" \in DOMAIN hashid

\* str(previous_hash) where it is a hash object shows the address of the
\* object and nothing of what it was fed
Shown(previous_hash) ==
    IF "address" \in DOMAIN previous_hash THEN [address |-> previous_hash.address]
    ELSE previous_hash

\* str(previous_hash), as the number the digest mixes in
HashText(previous_hash) ==
    IF "address" \in DOMAIN previous_hash THEN previous_hash.address
    ELSE IntOfHex(previous_hash)

\* sha256(str(nonce) + str(hashable_data) + str(previous_hash) + str(timestamp)
\*        + str(block_number)).hexdigest()
Sha256Hex(nonce, power_data, previous_hash, timestamp, block_number) ==
    [digits |-> HexDigest((5 * nonce + 3 * HashableData(power_data)
                           + 7 * HashText(previous_hash)
                           + 11 * timestamp + 13 * block_number + 6) % HashSpace),
     input |-> <<nonce, power_data, Shown(previous_hash), timestamp, block_number>>]

\* sha256(''.encode()).hexdigest()
EmptyDigest == [digits |-> HexDigest(HashSpace - 2), input |-> <<>>]

\* the address of a hash object nothing has shown yet
NoAddress == 0 - 1

\* sha256(): the hash object numbered id, fed nothing
Sha256(id) == [sha |-> id, fed |-> <<>>, address |-> NoAddress]

\* hashid.update(text)
Update(hashid, text) == [hashid EXCEPT !.fed = Append(@, text)]

RECURSIVE FedSum(_)
FedSum(fed) ==
    IF fed = <<>> THEN 0
    ELSE IntOfHex(Sha256Hex(fed[1][1], fed[1][2], fed[1][3], fed[1][4], fed[1][5]))
         + FedSum(Tail(fed))

\* hashid.hexdigest() of a hash object: the digest of all it was fed
Hexdigest(hashid) ==
    IF hashid.fed = <<>> THEN EmptyDigest
    ELSE IF Len(hashid.fed) = 1
    THEN Sha256Hex(hashid.fed[1][1], hashid.fed[1][2], hashid.fed[1][3],
                   hashid.fed[1][4], hashid.fed[1][5])
    ELSE [digits |-> HexDigest((FedSum(hashid.fed) + 1) % HashSpace),
          input |-> hashid.fed]

\* sha256(): a hash object that was fed nothing yet
FreshSha256 == [digits |-> <<>>, input |-> <<>>]

\* ------------------------------------------------------------------ Block
\* Block.__init__; the hash is unset until mine() stores the hex digest
NewBlock(block_number, power_data, previous_hash, now) ==
    [block_number |-> block_number, power_data |-> power_data,
     previous_hash |-> previous_hash, nonce |-> 0, hashid |-> FreshSha256,
     timestamp |-> now]

DigestAt(block, nonce) ==
    Sha256Hex(nonce, block.power_data, block.previous_hash, block.timestamp,
              block.block_number)

\* the loop condition of mine(), negated: the search stops at this digest.
\* 2**(256 - difficulty) is a fraction in [0, 1) once difficulty exceeds 256.
MineStops(hashid, d) ==
    IF d <= HashBits THEN ~(IntOfHex(hashid) > 2 ^ (HashBits - d))
    ELSE IntOfHex(hashid) = 0

\* the search visits block.nonce, block.nonce + 1, ...; the digest has period
\* HashSpace in the nonce, so a search that stops does so within HashSpace steps
MineTerminates(block, d) ==
    { n \in block.nonce .. block.nonce + HashSpace - 1 :
          MineStops(DigestAt(block, n), d) } # {}

RECURSIVE MineFrom(_, _, _)
MineFrom(block, d, n) ==
    IF MineStops(DigestAt(block, n), d)
    THEN [block EXCEPT !.nonce = n, !.hashid = DigestAt(block, n)]
    ELSE MineFrom(block, d, n + 1)

\* Block.mine, defined where the search terminates
Mine(block, d) == MineFrom(block, d, block.nonce)

\* -------------------------------------------------------------- Blockchain
\* 2**(256 - difficulty) is a float above difficulty 256: a fraction in
\* (0, 1) down to 2**-1074, and the float 0.0 from 2**-1075 on
MaxFraction == 256 + 1074

\* int(hashid, 16) < 2**(256 - difficulty): the target is an integer, or a
\* fraction in (0, 1) that only 0 is below, or 0.0 that no integer is below
MeetsDifficulty(hashid, d) ==
    IF d <= HashBits THEN IntOfHex(hashid) < 2 ^ (HashBits - d)
    ELSE IF d <= MaxFraction THEN IntOfHex(hashid) = 0
    ELSE FALSE

\* Blockchain.proof_of_work(block, previous) against self.chain = c;
\* previous = -1 is the tail. Only called on a non-empty chain here.
ProofOfWork(c, d, block, previous) ==
    /\ MeetsDifficulty(block.hashid, d)
    /\ block.previous_hash = c[IF previous = -1 THEN Len(c) ELSE previous + 1].hashid

\* an append that puts the block in the place of the tail
ChainAppend_ReplacesTail(c, block) == Append(SubSeq(c, 1, Len(c) - 1), block)

\* self.chain.append(block)
ChainAppend(c, block) == Append(c, block)

\* Blockchain.validate_chain
ValidateChain(c, d) ==
    \A block_index \in 1 .. Len(c) - 1 : ProofOfWork(c, d, c[block_index + 1], block_index - 1)

\* validate_another_chain without the difficulty comparison
ValidateAnotherChain_NoWork(d, other) ==
    \A block_index \in 1 .. Len(other) - 1 :
        other[block_index + 1].previous_hash = other[block_index].hashid

\* Blockchain.validate_another_chain
ValidateAnotherChain(d, other) ==
    \A block_index \in 1 .. Len(other) - 1 :
        /\ MeetsDifficulty(other[block_index + 1].hashid, d)
        /\ other[block_index + 1].previous_hash = other[block_index].hashid

\* ------------------------------------------------------------ genesis, Init
GenesisData(now) ==
    [timestamp |-> now, voltage_vector |-> <<0>>, current_vector |-> <<0>>,
     power_vector |-> <<0>>, node_id |-> "genesis",
     metadata |-> {<<"type", "genesis_block">>}]

\* Blockchain.create_genesis_block: the clock is read for the record, and
\* again by Block() for the block
GenesisBlock(d, now, then) ==
    Mine(NewBlock(1, GenesisData(now), EmptyDigest, then), d)

Difficulties == 0 .. MaxDifficulty

\* the last handler was not /verify
NoAudit == [chain_length |-> 0, is_valid |-> TRUE, tampering_detected |-> <<>>]

\* the threads the server runs request handlers on
Threads == {"t1", "t2"}

\* a thread that is inside no handler
Idle == [pc |-> "idle"]

Init ==
    /\ difficulty \in Difficulties
    /\ clock \in 0 .. MaxClock
    /\ chain \in { <<GenesisBlock(difficulty, now, clock)>> : now \in 0 .. clock }
    /\ pending_power_data = <<>>
    /\ nodes = {}
    /\ last = [op |-> "init", ret |-> "None"]
    /\ audit = NoAudit
    /\ audits = 0
    /\ thread = [t \in Threads |-> Idle]

\* datetime.now(): not before the last reading
Now == clock .. (IF clock < MaxClock THEN clock + 1 ELSE clock)

\* ---------------------------------------------------------------- requests
\* The server answers each request on a thread of its own and the ledger has
\* no lock: between any two of its reads and writes of the queue, the chain
\* and the peer set, a handler is overtaken by the handlers of other
\* requests. Each action below holds one such read or write and the local
\* computation that follows it; at most the threads of Threads are inside a
\* handler at a time.

\* what a thread inside a handler returns to with every step but its last
Running == [op |-> "running", ret |-> "None"]

\* ------------------------------------------------------------------ submit
\* an entry of a posted vector that is itself a list: the vector is ragged
Nested == 0 - 1

\* request bodies of POST /new_power_data. A JSON object is kept as the
\* record of its keys, a JSON array as the record [items |-> its elements].
Bodies ==
    { [voltage_vector |-> <<1>>, current_vector |-> <<1>>, power_vector |-> <<1>>,
       node_id |-> "n1"],
      [voltage_vector |-> <<2>>, current_vector |-> <<1>>, power_vector |-> <<2>>,
       node_id |-> "n1", metadata |-> {<<"location", "a">>}],
      [voltage_vector |-> <<1>>, current_vector |-> <<1>>, power_vector |-> <<1>>],
      [voltage_vector |-> <<1>>, current_vector |-> <<1>>, node_id |-> "n1"],
      [voltage_vector |-> <<1>>, power_vector |-> <<1>>, node_id |-> "n1"],
      [current_vector |-> <<1>>, power_vector |-> <<1>>, node_id |-> "n2",
       metadata |-> {<<"location", "a">>}],
      [metadata |-> {}],
      [voltage_vector |-> <<1, Nested>>, current_vector |-> <<1>>,
       power_vector |-> <<1>>, node_id |-> "n1"],
      [items |-> <<"voltage_vector", "current_vector", "power_vector", "node_id">>],
      [items |-> <<"voltage_vector">>] }

required_fields == {"voltage_vector", "current_vector", "power_vector", "node_id"}

\* the posted body is a JSON array
IsArray(data) == "items" \in DOMAIN data

\* field in data: a key of an object, an element of an array
In(field, data) ==
    IF IsArray(data) THEN \E i \in DOMAIN data.items : data.items[i] = field
    ELSE field \in DOMAIN data

\* all(field in data for field in required_fields)
HasRequired(body) == \A field \in required_fields : In(field, body)

\* np.array(v) on a ragged list: raises ValueError from NumPy 1.24 on, and
\* builds an array of lists before
Ragged(v) == \E i \in DOMAIN v : v[i] = Nested

\* the arguments of add_power_data can raise: data['voltage_vector'] on an
\* array raises TypeError, np.array can raise on a ragged vector
Raises(body) ==
    IF IsArray(body) THEN TRUE
    ELSE { field \in {"voltage_vector", "current_vector", "power_vector"} :
             Ragged(body[field]) } # {}

\* the arguments of add_power_data can be built
Converts(body) == ~IsArray(body)

\* Blockchain.add_power_data: the record built from the fields and the clock
PowerData(body, now) ==
    [timestamp |-> now, voltage_vector |-> body.voltage_vector,
     current_vector |-> body.current_vector, power_vector |-> body.power_vector,
     node_id |-> body.node_id,
     metadata |-> IF "metadata" \in DOMAIN body THEN body.metadata ELSE {}]

\* an append that queues the record twice
PendingAppend_QueuesTwice(queue, power_data) ==
    Append(Append(queue, power_data), power_data)

\* self.pending_power_data.append(power_data)
PendingAppend(queue, power_data) == Append(queue, power_data)

\* threads that hold a record they built and have not queued yet
Queueing == { t \in Threads : thread[t].pc = "queue" }

\* fewer than n records are pending or about to be
Room(n) == Len(pending_power_data) + Cardinality(Queueing) < n

\* api.new_power_data up to the record built by add_power_data: the fields
\* are checked, the arguments are built inside the try, then the clock is
\* read. Both failures are answered 400 before the ledger is touched.
\* Requests are not served once n records are pending or about to be.
SubmitBegin(t, body, n) ==
    /\ thread[t].pc = "idle"
    /\ Room(n)
    /\ IF ~HasRequired(body)
       THEN /\ last' = [op |-> "submit", ret |-> "400", body |-> body]
            /\ UNCHANGED <<thread, clock>>
       ELSE \/ /\ Raises(body)
               /\ last' = [op |-> "submit", ret |-> "400", body |-> body]
               /\ UNCHANGED <<thread, clock>>
            \/ /\ Converts(body)
               /\ \E now \in Now :
                     /\ thread' = [thread EXCEPT ![t] =
                                      [pc |-> "queue", body |-> body,
                                       power_data |-> PowerData(body, now)]]
                     /\ clock' = now
                     /\ last' = Running
    /\ audit' = NoAudit
    /\ UNCHANGED audits
    /\ UNCHANGED <<difficulty, chain, pending_power_data, nodes>>

\* add_power_data: the append to the queue, and the answer of the handler
SubmitAppend(t) ==
    /\ thread[t].pc = "queue"
    /\ pending_power_data' = PendingAppend(pending_power_data, thread[t].power_data)
    /\ thread' = [thread EXCEPT ![t] = Idle]
    /\ last' = [op |-> "submit", ret |-> "201"]
    /\ audit' = NoAudit
    /\ UNCHANGED audits
    /\ UNCHANGED <<difficulty, chain, nodes, clock>>

\* --------------------------------------------------------------- mine_next
\* a pop that takes the oldest record
Pop_Oldest(queue) ==
    [item |-> queue[1], rest |-> SubSeq(queue, 2, Len(queue))]

\* list.pop() on a non-empty list: the item returned and the list afterwards
Pop(queue) ==
    [item |-> queue[Len(queue)], rest |-> SubSeq(queue, 1, Len(queue) - 1)]

\* threads inside mine_power_data
InFlight == { t \in Threads : thread[t].pc \in {"pop", "len", "tail", "check", "append",
                                               "return"} }

\* the number of blocks mined here one on the other that end in the block
\* of this hash
RECURSIVE Height(_)
Height(hashid) ==
    IF "input" \in DOMAIN hashid
    THEN IF Len(hashid.input) = 5 THEN 1 + Height(hashid.input[3]) ELSE 0
    ELSE 0

\* the chain and the requests inside mine_power_data leave room for a
\* block, where the chain holds no more than n
MineRoom(n) ==
    /\ Len(chain) + Cardinality(InFlight) < n
    /\ chain # <<>> =>
           Height(chain[Len(chain)].hashid) + Cardinality(InFlight) < n

\* mine_power_data: the test len(self.pending_power_data) > 0
MineTest(t, n) ==
    /\ thread[t].pc = "idle"
    /\ pending_power_data = <<>> \/ MineRoom(n)
    /\ IF Len(pending_power_data) > 0
       THEN /\ thread' = [thread EXCEPT ![t] = [pc |-> "pop"]]
            /\ last' = Running
       ELSE /\ last' = [op |-> "mine", ret |-> "NoPending"]
            /\ UNCHANGED thread
    /\ audit' = NoAudit
    /\ UNCHANGED audits
    /\ UNCHANGED <<difficulty, chain, pending_power_data, nodes, clock>>

\* mine_power_data: self.pending_power_data.pop(), which raises IndexError
\* on a list emptied since the test
MinePop(t) ==
    /\ thread[t].pc = "pop"
    /\ IF pending_power_data = <<>>
       THEN /\ thread' = [thread EXCEPT ![t] = Idle]
            /\ last' = [op |-> "mine", ret |-> "IndexError"]
            /\ UNCHANGED pending_power_data
       ELSE /\ thread' = [thread EXCEPT ![t] =
                             [pc |-> "len", data |-> Pop(pending_power_data).item]]
            /\ pending_power_data' = Pop(pending_power_data).rest
            /\ last' = Running
    /\ audit' = NoAudit
    /\ UNCHANGED audits
    /\ UNCHANGED <<difficulty, chain, nodes, clock>>

\* mine_power_data: len(self.chain) + 1, the first argument of Block()
MineLen(t) ==
    /\ thread[t].pc = "len"
    /\ thread' = [thread EXCEPT ![t] = [pc |-> "tail", data |-> thread[t].data,
                                        block_number |-> Len(chain) + 1]]
    /\ last' = Running
    /\ audit' = NoAudit
    /\ UNCHANGED audits
    /\ UNCHANGED <<difficulty, chain, pending_power_data, nodes, clock>>

\* h where it is not the hash object old, and new where it is
Swap(h, old, new) == IF h = old THEN new ELSE h

\* the chain with the hash object old, wherever a block refers to it, as new
SwapChain(c, old, new) ==
    [k \in DOMAIN c |-> [c[k] EXCEPT !.hashid = Swap(@, old, new),
                                     !.previous_hash = Swap(@, old, new)]]

\* the locals of a thread with the hash object old as new
SwapLocals(locals, old, new) ==
    IF "original_hash" \in DOMAIN locals
    THEN [locals EXCEPT !.original_hash = Swap(@, old, new),
                        !.ref = Swap(@, old, new),
                        !.new_hash = Swap(@, old, new)]
    ELSE IF "block" \in DOMAIN locals
    THEN [locals EXCEPT !.block.previous_hash = Swap(@, old, new)]
    ELSE locals

\* the addresses the hash object tail can have where str() shows it: the
\* one shown before, or any
Addresses256(tail) ==
    IF ~IsObject(tail) THEN {NoAddress}
    ELSE IF tail.address # NoAddress THEN {tail.address}
    ELSE 0 .. MaxAddress

\* the hash object tail, known to be at this address
At(tail, address) ==
    IF IsObject(tail) THEN [tail EXCEPT !.address = address] ELSE tail

\* mine_power_data: self.chain[-1].hashid, then Block() and block.mine(),
\* which read the clock and work on the new block alone. The tail's hashid
\* is the hash object while /verify recomputes it: the new block then
\* refers to that object, and its digest is taken over the object's repr.
MineTail(t) ==
    /\ thread[t].pc = "tail"
    /\ IF chain = <<>>
       THEN /\ thread' = [thread EXCEPT ![t] = Idle]
            /\ last' = [op |-> "mine", ret |-> "IndexError"]
            /\ UNCHANGED <<clock, chain>>
       ELSE \E now \in Now : \E address \in Addresses256(chain[Len(chain)].hashid) :
               LET tail == chain[Len(chain)].hashid
                   block == NewBlock(thread[t].block_number, thread[t].data,
                                     At(tail, address), now)
               IN  /\ MineTerminates(block, difficulty)
                   /\ thread' = [u \in Threads |->
                                     IF u = t
                                     THEN [pc |-> "check", block |-> Mine(block, difficulty)]
                                     ELSE SwapLocals(thread[u], tail, At(tail, address))]
                   /\ chain' = SwapChain(chain, tail, At(tail, address))
                   /\ last' = Running
                   /\ clock' = now
    /\ audit' = NoAudit
    /\ UNCHANGED audits
    /\ UNCHANGED <<difficulty, pending_power_data, nodes>>

\* add_to_chain: the call of proof_of_work; the tail is read only where the
\* hash is below the target
MineCheck(t) ==
    /\ thread[t].pc = "check"
    /\ IF ~MeetsDifficulty(thread[t].block.hashid, difficulty)
       THEN /\ thread' = [thread EXCEPT ![t] = Idle]
            /\ last' = [op |-> "mine", ret |-> "Failure"]
       ELSE IF chain = <<>>
       THEN /\ thread' = [thread EXCEPT ![t] = Idle]
            /\ last' = [op |-> "mine", ret |-> "IndexError"]
       ELSE IF ProofOfWork(chain, difficulty, thread[t].block, -1)
       THEN /\ thread' = [thread EXCEPT ![t] = [pc |-> "append",
                                                block |-> thread[t].block]]
            /\ last' = Running
       ELSE /\ thread' = [thread EXCEPT ![t] = Idle]
            /\ last' = [op |-> "mine", ret |-> "Failure"]
    /\ audit' = NoAudit
    /\ UNCHANGED audits
    /\ UNCHANGED <<difficulty, chain, pending_power_data, nodes, clock>>

\* add_to_chain: self.chain.append(block)
MineAppend(t) ==
    /\ thread[t].pc = "append"
    /\ chain' = ChainAppend(chain, thread[t].block)
    /\ thread' = [thread EXCEPT ![t] = [pc |-> "return"]]
    /\ last' = [op |-> "append", ret |-> "None"]
    /\ audit' = NoAudit
    /\ UNCHANGED audits
    /\ UNCHANGED <<difficulty, pending_power_data, nodes, clock>>

\* add_to_chain: return self.chain[-1], a block of whatever chain is there
MineReturn(t) ==
    /\ thread[t].pc = "return"
    /\ thread' = [thread EXCEPT ![t] = Idle]
    /\ last' = [op |-> "mine", ret |-> IF chain = <<>> THEN "IndexError" ELSE "Block"]
    /\ audit' = NoAudit
    /\ UNCHANGED audits
    /\ UNCHANGED <<difficulty, chain, pending_power_data, nodes, clock>>

\* ---------------------------------------------------------------- add_nodes
\* addresses posted to /add_nodes
Addresses ==
    { [scheme |-> "http", netloc |-> "n1:5000", path |-> ""],
      [scheme |-> "http", netloc |-> "n1:5000", path |-> "/chain"],
      [scheme |-> "http", netloc |-> "n2:5001", path |-> ""] }

\* urlparse(node_address).netloc
Netloc(node_address) == node_address.netloc

\* Blockchain.register_node, called by api.add_nodes for each address
RegisterNode(node_address) ==
    /\ nodes' = nodes \cup {Netloc(node_address)}
    /\ last' = [op |-> "register", ret |-> "None"]
    /\ audit' = NoAudit
    /\ UNCHANGED audits
    /\ UNCHANGED <<difficulty, chain, pending_power_data, clock, thread>>

\* ---------------------------------------------------------------- reconcile
\* a block of a peer's decoded chain
PeerBlock(block_number, power_data, previous_hash, hashid) ==
    [block_number |-> block_number, power_data |-> power_data,
     previous_hash |-> previous_hash, nonce |-> 0, hashid |-> hashid,
     timestamp |-> 0]

PeerData ==
    [timestamp |-> 0, voltage_vector |-> <<3>>, current_vector |-> <<3>>,
     power_vector |-> <<3>>, node_id |-> "n2", metadata |-> {}]

\* a hex string a peer sends as a hash: its digits, computed from nothing here
PeerHash(n) == [digits |-> HexDigest(n), input |-> <<"peer">>]

PeerG == PeerBlock(1, GenesisData(0), EmptyDigest, PeerHash(1))
PeerA == PeerBlock(2, PeerData, PeerHash(1), PeerHash(0))
PeerC == PeerBlock(3, PeerData, PeerHash(0), PeerHash(1))
\* a hash that misses the target of every difficulty above 0
PeerB == PeerBlock(3, PeerData, PeerHash(0), PeerHash(HashSpace - 1))
\* linked to PeerG and below the target, numbered 3
PeerD == PeerBlock(3, PeerData, PeerHash(1), PeerHash(0))

\* chains a peer answers with: empty, linked and below the target for the
\* difficulties up to 2 (the first four), a broken link, a hash above the
\* target, linked and below the target with a block number skipped
PeerChains ==
    { <<>>, <<PeerG>>, <<PeerG, PeerA>>, <<PeerG, PeerA, PeerC>>,
      <<PeerG, PeerC>>, <<PeerG, PeerA, PeerB>>, <<PeerG, PeerD>> }

\* the Length a peer reports beside its chain: the true one or MaxReported
ReportedLengths(c) == {Len(c), MaxReported}

\* what requests.get(.../chain_details) yields for one peer: it raises, or
\* answers with a status other than 200, or with 200 and a (Chain, Length) body
Responses ==
    { [kind |-> "raise"], [kind |-> "status"] }
    \cup { [kind |-> "ok", Chain |-> r[1], Length |-> r[2]] :
             r \in UNION { {<<c, n>> : n \in ReportedLengths(c)} : c \in PeerChains } }

\* the locals of find_longest_chain before its loop; chain and length are unbound
LoopStart(c) ==
    [current_length |-> Len(c), new_chain |-> <<>>, replaced |-> FALSE,
     bound |-> FALSE, chain |-> <<>>, length |-> 0, raised |-> FALSE]

\* the loop body raising current_length before the chain is validated
LoopBody_CountsInvalid(d, loc, r) ==
    IF r.kind = "raise" THEN [loc EXCEPT !.raised = TRUE]
    ELSE LET got == IF r.kind = "ok"
                    THEN [loc EXCEPT !.bound = TRUE, !.chain = r.Chain,
                                     !.length = r.Length]
                    ELSE loc
         IN  IF ~got.bound THEN [got EXCEPT !.raised = TRUE]
             ELSE IF got.length > got.current_length
                  THEN IF ValidateAnotherChain(d, got.chain)
                       THEN [got EXCEPT !.current_length = got.length,
                                        !.new_chain = got.chain, !.replaced = TRUE]
                       ELSE [got EXCEPT !.current_length = got.length]
                  ELSE got

\* one pass of the loop body for the response r
LoopBody(d, loc, r) ==
    IF r.kind = "raise" THEN [loc EXCEPT !.raised = TRUE]
    ELSE LET got == IF r.kind = "ok"
                    THEN [loc EXCEPT !.bound = TRUE, !.chain = r.Chain,
                                     !.length = r.Length]
                    ELSE loc
         IN  IF ~got.bound THEN [got EXCEPT !.raised = TRUE]
             ELSE IF got.length > got.current_length
                     /\ ValidateAnotherChain(d, got.chain)
                  THEN [got EXCEPT !.current_length = got.length,
                                   !.new_chain = got.chain, !.replaced = TRUE]
                  ELSE got

RECURSIVE Loop(_, _, _, _)
Loop(d, loc, rs, i) ==
    IF i > Len(rs) \/ loc.raised THEN loc
    ELSE Loop(d, LoopBody(d, loc, rs[i]), rs, i + 1)

\* Blockchain.find_longest_chain on self.chain = c, the peers answering rs in
\* the order the loop visits them: the chain afterwards and what is returned
FindLongestChain(c, d, rs) ==
    LET loc == Loop(d, LoopStart(c), rs, 1)
    IN  IF loc.raised THEN [chain |-> c, ret |-> "Exception"]
        ELSE IF loc.replaced THEN [chain |-> loc.new_chain, ret |-> "True"]
        ELSE [chain |-> c, ret |-> "False"]

ResponseSeqs(n) == [1 .. n -> Responses]

\* find_longest_chain up to the loop: other_nodes is the set self.nodes
\* itself, current_length = len(self.chain)
ReconcileBegin(t) ==
    /\ thread[t].pc = "idle"
    /\ thread' = [thread EXCEPT ![t] = [pc |-> "iter", loc |-> LoopStart(chain)]]
    /\ last' = Running
    /\ audit' = NoAudit
    /\ UNCHANGED audits
    /\ UNCHANGED <<difficulty, chain, pending_power_data, nodes, clock>>

\* find_longest_chain: the for statement takes an iterator over the set,
\* which remembers the size the set has now
ReconcileIter(t) ==
    /\ thread[t].pc = "iter"
    /\ thread' = [thread EXCEPT ![t] =
                     [pc |-> "loop", loc |-> thread[t].loc,
                      used |-> Cardinality(nodes), left |-> Cardinality(nodes)]]
    /\ last' = Running
    /\ audit' = NoAudit
    /\ UNCHANGED audits
    /\ UNCHANGED <<difficulty, chain, pending_power_data, nodes, clock>>

\* find_longest_chain: the iterator yields the next peer, or raises
\* RuntimeError where the set changed size; requests.get yields r and the
\* loop body runs on the locals
ReconcilePeer(t, r) ==
    /\ thread[t].pc = "loop"
    /\ thread[t].left > 0
    /\ LET loc == LoopBody(difficulty, thread[t].loc, r)
       IN  IF Cardinality(nodes) # thread[t].used \/ loc.raised
           THEN /\ thread' = [thread EXCEPT ![t] = Idle]
                /\ last' = [op |-> "reconcile", ret |-> "Exception"]
           ELSE /\ thread' = [thread EXCEPT ![t] =
                                 [pc |-> "loop", loc |-> loc, used |-> thread[t].used,
                                  left |-> thread[t].left - 1]]
                /\ last' = Running
    /\ audit' = NoAudit
    /\ UNCHANGED audits
    /\ UNCHANGED <<difficulty, chain, pending_power_data, nodes, clock>>

\* find_longest_chain: the iterator is exhausted and the loop left, or it
\* raises RuntimeError where the set changed size
ReconcileExit(t) ==
    /\ thread[t].pc = "loop"
    /\ thread[t].left = 0
    /\ IF Cardinality(nodes) # thread[t].used
       THEN /\ thread' = [thread EXCEPT ![t] = Idle]
            /\ last' = [op |-> "reconcile", ret |-> "Exception"]
       ELSE /\ thread' = [thread EXCEPT ![t] = [pc |-> "store", loc |-> thread[t].loc]]
            /\ last' = Running
    /\ audit' = NoAudit
    /\ UNCHANGED audits
    /\ UNCHANGED <<difficulty, chain, pending_power_data, nodes, clock>>

\* find_longest_chain after the loop: self.chain = new_chain where one was
\* kept, and the value returned
ReconcileStore(t) ==
    /\ thread[t].pc = "store"
    /\ IF thread[t].loc.replaced
       THEN /\ chain' = thread[t].loc.new_chain
            /\ last' = [op |-> "reconcile", ret |-> "True"]
       ELSE /\ last' = [op |-> "reconcile", ret |-> "False"]
            /\ UNCHANGED chain
    /\ thread' = [thread EXCEPT ![t] = Idle]
    /\ audit' = NoAudit
    /\ UNCHANGED audits
    /\ UNCHANGED <<difficulty, pending_power_data, nodes, clock>>

\* ------------------------------------------------------------ attack, verify
\* request bodies of POST /attack
AttackBodies ==
    { [voltage_vector |-> <<9>>] }
    \cup UNION { { [block_index |-> i],
                   [block_index |-> i, voltage_vector |-> <<1>>],
                   [block_index |-> i, voltage_vector |-> <<9>>,
                    current_vector |-> <<9>>, power_vector |-> <<9>>] } :
                 i \in 0 .. MaxChain - 1 }

\* the vectors api.attack overwrites, in the order it does
AttackFields == <<"voltage_vector", "current_vector", "power_vector">>

\* those of them the body holds, in that order
Present(data) == SelectSeq(AttackFields, LAMBDA field : field \in DOMAIN data)

\* target_block.power_data[field] = np.array(data[field])
Overwrite(power_data, data, field) == [power_data EXCEPT ![field] = data[field]]

\* api.attack up to its first write: the body and the index are checked
\* against len(blockchain.chain), the block is fetched and the first vector
\* the body holds is written. The chain only grows where /attack is served,
\* so the block fetched stays at its index.
AttackBegin(t, data) ==
    /\ thread[t].pc = "idle"
    /\ IF "block_index" \notin DOMAIN data
       THEN /\ last' = [op |-> "attack", ret |-> "400"]
            /\ UNCHANGED <<chain, thread>>
       ELSE IF data.block_index >= Len(chain) \/ data.block_index < 1
       THEN /\ last' = [op |-> "attack", ret |-> "400"]
            /\ UNCHANGED <<chain, thread>>
       ELSE IF Present(data) = <<>>
       THEN /\ last' = [op |-> "attack", ret |-> "200"]
            /\ UNCHANGED <<chain, thread>>
       ELSE /\ chain' = [chain EXCEPT ![data.block_index + 1].power_data =
                                         Overwrite(@, data, Present(data)[1])]
            /\ IF Len(Present(data)) = 1
               THEN /\ last' = [op |-> "attack", ret |-> "200"]
                    /\ UNCHANGED thread
               ELSE /\ last' = Running
                    /\ thread' = [thread EXCEPT ![t] =
                                     [pc |-> "attack", data |-> data, written |-> 1]]
    /\ audit' = NoAudit
    /\ UNCHANGED audits
    /\ UNCHANGED <<difficulty, pending_power_data, nodes, clock>>

\* api.attack: the next vector is written, and the answer after the last
AttackWrite(t) ==
    /\ thread[t].pc = "attack"
    /\ LET data == thread[t].data
           written == thread[t].written + 1
       IN  /\ chain' = [chain EXCEPT ![data.block_index + 1].power_data =
                                        Overwrite(@, data, Present(data)[written])]
           /\ IF written = Len(Present(data))
              THEN /\ last' = [op |-> "attack", ret |-> "200"]
                   /\ thread' = [thread EXCEPT ![t] = Idle]
              ELSE /\ last' = Running
                   /\ thread' = [thread EXCEPT ![t] =
                                    [pc |-> "attack", data |-> data, written |-> written]]
    /\ audit' = NoAudit
    /\ UNCHANGED audits
    /\ UNCHANGED <<difficulty, pending_power_data, nodes, clock>>

\* a local of api.verify or Block.mine that holds nothing yet
Unbound == [unbound |-> TRUE]

\* the hashid values a thread holds in its locals
LocalHandles(locals) ==
    IF "original_hash" \in DOMAIN locals
    THEN {locals.original_hash, locals.ref, locals.new_hash}
    ELSE IF "block" \in DOMAIN locals THEN {locals.block.previous_hash}
    ELSE {}

\* the hashid values the chain and the threads refer to
Handles ==
    { chain[k].hashid : k \in DOMAIN chain }
    \cup { chain[k].previous_hash : k \in DOMAIN chain }
    \cup UNION { LocalHandles(thread[t]) : t \in Threads }

\* the numbers of the hash objects that are alive
ObjectIds == { h.sha : h \in { g \in Handles : IsObject(g) } }

\* sha256(): a new hash object, none of those alive
NewSha256 ==
    Sha256(CHOOSE n \in 1 .. Cardinality(ObjectIds) + 1 :
               /\ n \notin ObjectIds
               /\ \A m \in 1 .. n - 1 : m \in ObjectIds)

\* the locals of api.verify at the head of its loop. The blocks are referred
\* to by their place: the chain only grows where /verify is served.
VerifyLocals(i, stop, tampering_detected, before) ==
    [pc |-> "verify", i |-> i, stop |-> stop,
     tampering_detected |-> tampering_detected, before |-> before,
     original_hash |-> Unbound, hashable_data |-> <<>>, ref |-> Unbound,
     nonce |-> 0, digest |-> Unbound, new_hash |-> Unbound]

\* thread t goes on to pc with its locals as given
Goes(t, locals, pc) == [thread EXCEPT ![t] = [locals EXCEPT !.pc = pc]]

\* the request of thread t ends in the exception
VerifyRaises(t, exception) ==
    /\ thread' = [thread EXCEPT ![t] = Idle]
    /\ last' = [op |-> "verify", ret |-> exception]

\* api.verify up to its loop: range(1, len(blockchain.chain))
VerifyBegin(t) ==
    /\ thread[t].pc = "idle"
    /\ audits < MaxAudits
    /\ audits' = audits + 1
    /\ thread' = [thread EXCEPT ![t] = VerifyLocals(1, Len(chain), <<>>, chain)]
    /\ last' = Running
    /\ audit' = NoAudit
    /\ UNCHANGED <<difficulty, chain, pending_power_data, nodes, clock>>

\* api.verify: current_block, previous_block and the comparison of
\* current_block.previous_hash with previous_block.hashid, which may be the
\* hash object of a /verify on another thread
VerifyLink(t) ==
    /\ thread[t].pc = "verify"
    /\ thread[t].i < thread[t].stop
    /\ IF thread[t].i + 1 > Len(chain)
       THEN VerifyRaises(t, "IndexError")
       ELSE LET i == thread[t].i
                link == IF chain[i + 1].previous_hash # chain[i].hashid
                        THEN <<[block |-> i, finding |-> "Hash chain broken"]>>
                        ELSE <<>>
            IN  /\ thread' = Goes(t, [thread[t] EXCEPT !.tampering_detected = @ \o link],
                                  "save")
                /\ last' = Running
    /\ audit' = NoAudit
    /\ UNCHANGED audits
    /\ UNCHANGED <<difficulty, chain, pending_power_data, nodes, clock>>

\* api.verify: original_hash = current_block.hashid
VerifySave(t) ==
    /\ thread[t].pc = "save"
    /\ thread' = Goes(t, [thread[t] EXCEPT !.original_hash = chain[thread[t].i + 1].hashid],
                      "reset")
    /\ last' = Running
    /\ audit' = NoAudit
    /\ UNCHANGED audits
    /\ UNCHANGED <<difficulty, chain, pending_power_data, nodes, clock>>

\* api.verify: current_block.hashid = sha256()
VerifyReset(t) ==
    /\ thread[t].pc = "reset"
    /\ chain' = [chain EXCEPT ![thread[t].i + 1].hashid = NewSha256]
    /\ thread' = Goes(t, thread[t], "read")
    /\ last' = Running
    /\ audit' = NoAudit
    /\ UNCHANGED audits
    /\ UNCHANGED <<difficulty, pending_power_data, nodes, clock>>

\* Block.mine: hashable_data reads the three vectors one after the other;
\* /attack on another thread writes them one after the other
VerifyRead(t) ==
    /\ thread[t].pc = "read"
    /\ LET field == AttackFields[Len(thread[t].hashable_data) + 1]
           read == Append(thread[t].hashable_data,
                          chain[thread[t].i + 1].power_data[field])
       IN  thread' = Goes(t, [thread[t] EXCEPT !.hashable_data = read],
                          IF Len(read) = Len(AttackFields) THEN "update" ELSE "read")
    /\ last' = Running
    /\ audit' = NoAudit
    /\ UNCHANGED audits
    /\ UNCHANGED <<difficulty, chain, pending_power_data, nodes, clock>>

\* where a step that loads self.hashid for a method call goes on
Loaded(pc) ==
    CASE pc = "update" -> "nonce"
      [] pc = "test" -> "compare"
      [] pc = "digest" -> "hex"

\* Block.mine: self.hashid is loaded for .update, for .hexdigest in the loop
\* test and for the last .hexdigest; a hex string another /verify put there
\* has none of these methods
VerifyLoad(t) ==
    /\ thread[t].pc \in {"update", "test", "digest"}
    /\ LET hashid == chain[thread[t].i + 1].hashid
       IN  IF IsObject(hashid)
           THEN /\ thread' = Goes(t, [thread[t] EXCEPT !.ref = hashid],
                                  Loaded(thread[t].pc))
                /\ last' = Running
           ELSE VerifyRaises(t, "AttributeError")
    /\ audit' = NoAudit
    /\ UNCHANGED audits
    /\ UNCHANGED <<difficulty, chain, pending_power_data, nodes, clock>>

\* Block.mine: str(self.nonce), the first argument of update
VerifyNonce(t) ==
    /\ thread[t].pc = "nonce"
    /\ thread' = Goes(t, [thread[t] EXCEPT !.nonce = chain[thread[t].i + 1].nonce],
                      "feed")
    /\ last' = Running
    /\ audit' = NoAudit
    /\ UNCHANGED audits
    /\ UNCHANGED <<difficulty, chain, pending_power_data, nodes, clock>>

\* what Block.mine feeds the hash object: the nonce and the vectors it read,
\* and the fields of the block that are never rewritten
Text(block, locals) ==
    <<locals.nonce,
      [block.power_data EXCEPT !.voltage_vector = locals.hashable_data[1],
                               !.current_vector = locals.hashable_data[2],
                               !.power_vector = locals.hashable_data[3]],
      Shown(block.previous_hash), block.timestamp, block.block_number>>

\* Block.mine: the call of update on the hash object that was loaded, which
\* every reference to the object sees
VerifyFeed(t) ==
    /\ thread[t].pc = "feed"
    /\ Len(thread[t].ref.fed) < MaxFed
    /\ LET old == thread[t].ref
           new == Update(old, Text(chain[thread[t].i + 1], thread[t]))
       IN  /\ chain' = SwapChain(chain, old, new)
           /\ thread' = [u \in Threads |->
                            IF u = t
                            THEN [SwapLocals(thread[t], old, new) EXCEPT
                                      !.ref = Unbound, !.pc = "test"]
                            ELSE SwapLocals(thread[u], old, new)]
    /\ last' = Running
    /\ audit' = NoAudit
    /\ UNCHANGED audits
    /\ UNCHANGED <<difficulty, pending_power_data, nodes, clock>>

\* Block.mine: the loop test on the digest of the hash object that was loaded
VerifyCompare(t) ==
    /\ thread[t].pc = "compare"
    /\ thread' = Goes(t, [thread[t] EXCEPT !.ref = Unbound],
                      IF MineStops(Hexdigest(thread[t].ref), difficulty)
                      THEN "digest" ELSE "inc")
    /\ last' = Running
    /\ audit' = NoAudit
    /\ UNCHANGED audits
    /\ UNCHANGED <<difficulty, chain, pending_power_data, nodes, clock>>

\* Block.mine: self.nonce += 1 reads the nonce
VerifyInc(t) ==
    /\ thread[t].pc = "inc"
    /\ thread' = Goes(t, [thread[t] EXCEPT !.nonce = chain[thread[t].i + 1].nonce],
                      "add")
    /\ last' = Running
    /\ audit' = NoAudit
    /\ UNCHANGED audits
    /\ UNCHANGED <<difficulty, chain, pending_power_data, nodes, clock>>

\* Block.mine: self.nonce += 1 stores the nonce it read, plus one
VerifyStore(t) ==
    /\ thread[t].pc = "add"
    /\ thread[t].nonce < MaxNonce
    /\ chain' = [chain EXCEPT ![thread[t].i + 1].nonce = thread[t].nonce + 1]
    /\ thread' = Goes(t, thread[t], "renew")
    /\ last' = Running
    /\ audit' = NoAudit
    /\ UNCHANGED audits
    /\ UNCHANGED <<difficulty, pending_power_data, nodes, clock>>

\* Block.mine: self.hashid = sha256() inside the loop
VerifyRenew(t) ==
    /\ thread[t].pc = "renew"
    /\ chain' = [chain EXCEPT ![thread[t].i + 1].hashid = NewSha256]
    /\ thread' = Goes(t, thread[t], "update")
    /\ last' = Running
    /\ audit' = NoAudit
    /\ UNCHANGED audits
    /\ UNCHANGED <<difficulty, pending_power_data, nodes, clock>>

\* Block.mine: the hexdigest() of the hash object that was loaded
VerifyHex(t) ==
    /\ thread[t].pc = "hex"
    /\ thread' = Goes(t, [thread[t] EXCEPT !.digest = Hexdigest(thread[t].ref),
                                           !.ref = Unbound], "write")
    /\ last' = Running
    /\ audit' = NoAudit
    /\ UNCHANGED audits
    /\ UNCHANGED <<difficulty, chain, pending_power_data, nodes, clock>>

\* Block.mine: self.hashid = the hex string; what mine returns is dropped
VerifyWrite(t) ==
    /\ thread[t].pc = "write"
    /\ chain' = [chain EXCEPT ![thread[t].i + 1].hashid = thread[t].digest]
    /\ thread' = Goes(t, [thread[t] EXCEPT !.digest = Unbound], "new")
    /\ last' = Running
    /\ audit' = NoAudit
    /\ UNCHANGED audits
    /\ UNCHANGED <<difficulty, pending_power_data, nodes, clock>>

\* api.verify: new_hash = current_block.hashid
VerifyNew(t) ==
    /\ thread[t].pc = "new"
    /\ thread' = Goes(t, [thread[t] EXCEPT !.new_hash = chain[thread[t].i + 1].hashid],
                      "restore")
    /\ last' = Running
    /\ audit' = NoAudit
    /\ UNCHANGED audits
    /\ UNCHANGED <<difficulty, chain, pending_power_data, nodes, clock>>

\* api.verify: current_block.hashid = original_hash, then the comparison of
\* original_hash with new_hash and the next pass
VerifyRestore(t) ==
    /\ thread[t].pc = "restore"
    /\ LET i == thread[t].i
           content == IF thread[t].original_hash # thread[t].new_hash
                      THEN <<[block |-> i, finding |-> "Content modified"]>>
                      ELSE <<>>
       IN  /\ chain' = [chain EXCEPT ![i + 1].hashid = thread[t].original_hash]
           /\ thread' = [thread EXCEPT ![t] =
                            VerifyLocals(i + 1, thread[t].stop,
                                         thread[t].tampering_detected \o content,
                                         thread[t].before)]
    /\ last' = Running
    /\ audit' = NoAudit
    /\ UNCHANGED audits
    /\ UNCHANGED <<difficulty, pending_power_data, nodes, clock>>

\* api.verify after its loop: len(blockchain.chain) is read for the answer
VerifyEnd(t) ==
    /\ thread[t].pc = "verify"
    /\ thread[t].i >= thread[t].stop
    /\ UNCHANGED audits
    /\ audit' = [chain_length |-> Len(chain),
                 is_valid |-> Len(thread[t].tampering_detected) = 0,
                 tampering_detected |-> thread[t].tampering_detected]
    /\ thread' = [thread EXCEPT ![t] = Idle]
    /\ last' = [op |-> "verify", ret |-> "200"]
    /\ UNCHANGED <<difficulty, chain, pending_power_data, nodes, clock>>

\* ---------------------------------------------------------- specifications
\* the bodies submitted where peers or audits are served too: one that holds
\* every required field and metadata, and one that holds metadata alone
ConcBodies ==
    { body \in Bodies :
        /\ ~IsArray(body)
        /\ "metadata" \in DOMAIN body
        /\ "node_id" \in DOMAIN body => body.node_id = "n1" }

\* the bodies submitted where only /new_power_data and /mine are served:
\* those of ConcBodies, those that lack a required field, the arrays and
\* the one with a ragged vector
LocalBodies ==
    { body \in Bodies :
        IF HasRequired(body) THEN "metadata" \in DOMAIN body \/ Raises(body)
        ELSE TRUE }

\* the addresses registered and the answers of the peer where every handler
\* is served: one peer, answering with a chain of two blocks
ConcAddresses == { node_address \in Addresses : Netloc(node_address) = "n1:5000" }
ConcResponses ==
    { r \in Responses :
        r.kind = "ok" =>
            r.Chain = <<PeerG, PeerA>> /\ r.Length = 2 }

\* the answers of a peer that has no block to send under a length of
\* MaxReported
EmptiedResponses ==
    { r \in Responses : r.kind = "ok" => r.Chain = <<>> /\ r.Length = MaxReported }

\* the answers of the peers where only /add_nodes and /consensus are served:
\* no block under a length that is not its own, and under their own lengths
\* two blocks numbered 1 and 2, two blocks numbered 1 and 3, and three
\* blocks the last of which is below the target of difficulty 0 alone
PeerResponses ==
    { r \in Responses :
        r.kind = "ok" =>
            \/ r.Chain = <<>> /\ r.Length = MaxReported
            \/ /\ r.Chain \in {<<PeerG, PeerA>>, <<PeerG, PeerD>>, <<PeerG, PeerA, PeerB>>}
               /\ r.Length = Len(r.Chain) }

\* a ledger that is submitted to, mined on and reconciled with one peer
Next ==
    \/ \E t \in Threads : \E body \in ConcBodies : SubmitBegin(t, body, MaxQueued)
    \/ \E t \in Threads : SubmitAppend(t)
    \/ \E t \in Threads : MineTest(t, MaxChain)
    \/ \E t \in Threads : MinePop(t)
    \/ \E t \in Threads : MineLen(t)
    \/ \E t \in Threads : MineTail(t)
    \/ \E t \in Threads : MineCheck(t)
    \/ \E t \in Threads : MineAppend(t)
    \/ \E t \in Threads : MineReturn(t)
    \/ \E node_address \in ConcAddresses : RegisterNode(node_address)
    \/ \E t \in Threads : ReconcileBegin(t)
    \/ \E t \in Threads : ReconcileIter(t)
    \/ \E t \in Threads : \E r \in ConcResponses : ReconcilePeer(t, r)
    \/ \E t \in Threads : ReconcileExit(t)
    \/ \E t \in Threads : ReconcileStore(t)

Spec == Init /\ [][Next]_vars

\* a ledger that one client submits to and mines on while another has it
\* reconciled with a peer that sends no block
Miners == {"t1"}
Reconcilers == {"t2"}
NextEmptied ==
    \/ \E t \in Miners : \E body \in ConcBodies : SubmitBegin(t, body, MaxQueued)
    \/ \E t \in Miners : SubmitAppend(t)
    \/ \E t \in Miners : MineTest(t, MaxChain)
    \/ \E t \in Miners : MinePop(t)
    \/ \E t \in Miners : MineLen(t)
    \/ \E t \in Miners : MineTail(t)
    \/ \E t \in Miners : MineCheck(t)
    \/ \E t \in Miners : MineAppend(t)
    \/ \E t \in Miners : MineReturn(t)
    \/ \E node_address \in ConcAddresses : RegisterNode(node_address)
    \/ \E t \in Reconcilers : ReconcileBegin(t)
    \/ \E t \in Reconcilers : ReconcileIter(t)
    \/ \E t \in Reconcilers : \E r \in EmptiedResponses : ReconcilePeer(t, r)
    \/ \E t \in Reconcilers : ReconcileExit(t)
    \/ \E t \in Reconcilers : ReconcileStore(t)

SpecEmptied == Init /\ [][NextEmptied]_vars

\* a ledger that peers are registered with and that is reconciled with them
NextPeers ==
    \/ \E node_address \in Addresses : RegisterNode(node_address)
    \/ \E t \in Threads : ReconcileBegin(t)
    \/ \E t \in Threads : ReconcileIter(t)
    \/ \E t \in Threads : \E r \in PeerResponses : ReconcilePeer(t, r)
    \/ \E t \in Threads : ReconcileExit(t)
    \/ \E t \in Threads : ReconcileStore(t)

SpecPeers == Init /\ [][NextPeers]_vars

\* a ledger that is only submitted to and mined on
NextLocal ==
    \/ \E t \in Threads : \E body \in LocalBodies : SubmitBegin(t, body, MaxPending)
    \/ \E t \in Threads : SubmitAppend(t)
    \/ \E t \in Threads : MineTest(t, MaxChain)
    \/ \E t \in Threads : MinePop(t)
    \/ \E t \in Threads : MineLen(t)
    \/ \E t \in Threads : MineTail(t)
    \/ \E t \in Threads : MineCheck(t)
    \/ \E t \in Threads : MineAppend(t)
    \/ \E t \in Threads : MineReturn(t)

SpecLocal == Init /\ [][NextLocal]_vars

\* the bodies posted to /attack: no index, an index that is turned down,
\* three vectors for the first block after the genesis block
ConcAttacks ==
    { data \in AttackBodies :
        "block_index" \in DOMAIN data =>
            \/ data.block_index = 0 /\ DOMAIN data = {"block_index"}
            \/ data.block_index = 1 /\ "power_vector" \in DOMAIN data }

\* the ledger is built within one reading of the clock, the last
InitAudit ==
    /\ Init
    /\ clock = MaxClock
    /\ chain[1].power_data.timestamp = clock

\* a ledger that is submitted to, mined on and attacked on one thread and
\* audited on the other
Writers == {"t1"}
Auditors == {"t2"}
NextAudit ==
    \/ \E t \in Writers : \E body \in ConcBodies : SubmitBegin(t, body, MaxQueued)
    \/ \E t \in Writers : SubmitAppend(t)
    \/ \E t \in Writers : MineTest(t, MaxChain)
    \/ \E t \in Writers : MinePop(t)
    \/ \E t \in Writers : MineLen(t)
    \/ \E t \in Writers : MineTail(t)
    \/ \E t \in Writers : MineCheck(t)
    \/ \E t \in Writers : MineAppend(t)
    \/ \E t \in Writers : MineReturn(t)
    \/ \E t \in Writers : \E data \in ConcAttacks : AttackBegin(t, data)
    \/ \E t \in Writers : AttackWrite(t)
    \/ \E t \in Auditors : VerifyBegin(t)
    \/ \E t \in Auditors : VerifyLink(t)
    \/ \E t \in Auditors : VerifySave(t)
    \/ \E t \in Auditors : VerifyReset(t)
    \/ \E t \in Auditors : VerifyRead(t)
    \/ \E t \in Auditors : VerifyLoad(t)
    \/ \E t \in Auditors : VerifyNonce(t)
    \/ \E t \in Auditors : VerifyFeed(t)
    \/ \E t \in Auditors : VerifyCompare(t)
    \/ \E t \in Auditors : VerifyInc(t)
    \/ \E t \in Auditors : VerifyStore(t)
    \/ \E t \in Auditors : VerifyRenew(t)
    \/ \E t \in Auditors : VerifyHex(t)
    \/ \E t \in Auditors : VerifyWrite(t)
    \/ \E t \in Auditors : VerifyNew(t)
    \/ \E t \in Auditors : VerifyRestore(t)
    \/ \E t \in Auditors : VerifyEnd(t)

SpecAudit == InitAudit /\ [][NextAudit]_vars

\* the attacks that write one vector of the first mined block
ShortAttacks ==
    { data \in AttackBodies :
        /\ DOMAIN data = {"block_index", "voltage_vector"}
        /\ data.block_index = 1 }

\* a ledger of up to MaxAudited blocks that is audited on both threads, and
\* submitted to, mined on and attacked on one of them
NextAudits ==
    \/ \E t \in Writers : \E body \in ConcBodies : SubmitBegin(t, body, MaxQueued)
    \/ \E t \in Writers : SubmitAppend(t)
    \/ \E t \in Writers : MineTest(t, MaxAudited)
    \/ \E t \in Writers : MinePop(t)
    \/ \E t \in Writers : MineLen(t)
    \/ \E t \in Writers : MineTail(t)
    \/ \E t \in Writers : MineCheck(t)
    \/ \E t \in Writers : MineAppend(t)
    \/ \E t \in Writers : MineReturn(t)
    \/ \E t \in Writers : \E data \in ShortAttacks : AttackBegin(t, data)
    \/ \E t \in Threads : VerifyBegin(t)
    \/ \E t \in Threads : VerifyLink(t)
    \/ \E t \in Threads : VerifySave(t)
    \/ \E t \in Threads : VerifyReset(t)
    \/ \E t \in Threads : VerifyRead(t)
    \/ \E t \in Threads : VerifyLoad(t)
    \/ \E t \in Threads : VerifyNonce(t)
    \/ \E t \in Threads : VerifyFeed(t)
    \/ \E t \in Threads : VerifyCompare(t)
    \/ \E t \in Threads : VerifyInc(t)
    \/ \E t \in Threads : VerifyStore(t)
    \/ \E t \in Threads : VerifyRenew(t)
    \/ \E t \in Threads : VerifyHex(t)
    \/ \E t \in Threads : VerifyWrite(t)
    \/ \E t \in Threads : VerifyNew(t)
    \/ \E t \in Threads : VerifyRestore(t)
    \/ \E t \in Threads : VerifyEnd(t)

SpecAudits == InitAudit /\ [][NextAudits]_vars

\* ------------------------------------------------------------------ claims
\* a peer that answered with status 200
IsOk(r) == r.kind = "ok"

\* the response sequences a reconcile started in this state can meet
RS == ResponseSeqs(Cardinality(nodes))

\* the step is one of thread t
Stepped(t) == thread'[t] # thread[t]

\* C1: the chain is never empty and its first element is a genesis block
\* (block number 1, the digest of the empty input as previous hash, the
\* genesis telemetry).
C1_GenesisFirst ==
    /\ chain # <<>>
    /\ chain[1].block_number = 1
    /\ chain[1].previous_hash = EmptyDigest
    /\ chain[1].power_data.node_id = "genesis"

\* C2: every non-genesis block of the chain stores as previous_hash the hash
\* stored in the block before it.
C2_Linked ==
    \A i \in 2 .. Len(chain) : chain[i].previous_hash = chain[i - 1].hashid

\* C3: the block mine() returns for the next pending record against the
\* current tail has a hash strictly below 2^(256 - difficulty) and passes
\* proof_of_work against that tail.
C3_MinedPassesGate ==
    (pending_power_data # <<>> /\ chain # <<>>) =>
        \A now \in Now :
            LET block == Mine(NewBlock(Len(chain) + 1,
                                       pending_power_data[Len(pending_power_data)],
                                       chain[Len(chain)].hashid, now), difficulty)
            IN  /\ MeetsDifficulty(block.hashid, difficulty)
                /\ ProofOfWork(chain, difficulty, block, -1)

\* C4: a reconcile step never leaves the chain with fewer blocks than it had.
C4_NeverShortens ==
    [][last'.op = "reconcile" => Len(chain') >= Len(chain)]_vars

\* C5: whatever the peers answer, reconcile replaces the chain only by a chain
\* one of them sent and that validate_chain accepts; otherwise the chain
\* stays. So does every step that ends a reconcile on a thread.
C5_AdoptsOnlyValid ==
    /\ [](\A rs \in RS :
            LET result == FindLongestChain(chain, difficulty, rs)
            IN  IF result.ret = "True"
                THEN /\ ValidateChain(result.chain, difficulty)
                     /\ \E i \in DOMAIN rs :
                            /\ rs[i].kind = "ok"
                            /\ rs[i].Chain = result.chain
                            /\ rs[i].Length > Len(chain)
                ELSE result.chain = chain)
    /\ [][last'.op = "reconcile" =>
             IF last'.ret = "True"
             THEN /\ ValidateChain(chain', difficulty)
                  /\ chain' \in PeerChains
             ELSE chain' = chain]_vars

\* after a replacement, a peer reporting a greater length with a chain that
\* fails validation is turned down
C5_Witness ==
    /\ last = [op |-> "reconcile", ret |-> "True"]
    /\ \E rs \in RS : \E i \in DOMAIN rs :
          /\ IsOk(rs[i])
          /\ rs[i].Length > Len(chain)
          /\ ~ValidateChain(rs[i].Chain, difficulty)
          /\ FindLongestChain(chain, difficulty, rs) = [chain |-> chain, ret |-> "False"]

\* the chains of rs that validate and hold more blocks than c
LongerValid(c, d, rs) ==
    { rs[i].Chain : i \in { j \in DOMAIN rs : /\ IsOk(rs[j])
                                              /\ Len(rs[j].Chain) > Len(c)
                                              /\ ValidateChain(rs[j].Chain, d) } }

\* C6: when every peer answers, reconcile ends with a longest chain among the
\* valid peer chains that hold more blocks than the local one and returns
\* true; with no such chain the local chain stays and it returns false.
C6_LongestValidAdopted ==
    \A rs \in RS :
        (\A i \in DOMAIN rs : IsOk(rs[i])) =>
            LET result == FindLongestChain(chain, difficulty, rs)
                cands == LongerValid(chain, difficulty, rs)
            IN  IF cands = {}
                THEN result = [chain |-> chain, ret |-> "False"]
                ELSE /\ result.ret = "True"
                     /\ result.chain \in cands
                     /\ \A c \in cands : Len(c) <= Len(result.chain)

\* two answering peers, one reporting the greater length with a chain that
\* fails validation, the other a smaller length, above the local one, with a
\* chain that validates: i is the former's place in the visiting order
C7_Case(rs, i, j) ==
    /\ DOMAIN rs = {1, 2} /\ {i, j} = {1, 2}
    /\ IsOk(rs[i]) /\ IsOk(rs[j])
    /\ ~ValidateChain(rs[i].Chain, difficulty)
    /\ ValidateChain(rs[j].Chain, difficulty)
    /\ rs[i].Length > rs[j].Length
    /\ rs[j].Length > Len(chain)

\* C7 as stated: in that case reconcile performs no replacement.
C7_NoReplacement ==
    \A rs \in RS : \A i, j \in DOMAIN rs :
        C7_Case(rs, i, j) =>
            FindLongestChain(chain, difficulty, rs) = [chain |-> chain, ret |-> "False"]

\* C7 amended: in that case reconcile replaces the local chain by the valid
\* chain of the smaller reported length and returns true, in either order.
C7_AdoptsShorterValid ==
    \A rs \in RS : \A i, j \in DOMAIN rs :
        C7_Case(rs, i, j) =>
            FindLongestChain(chain, difficulty, rs)
                = [chain |-> rs[j].Chain, ret |-> "True"]

\* two peers are registered and the case arises with true lengths reported,
\* the invalid chain visited first
C7_Witness ==
    /\ Cardinality(nodes) = 2
    /\ difficulty > 0
    /\ \E rs \in RS :
          /\ C7_Case(rs, 1, 2)
          /\ rs[1].Length = Len(rs[1].Chain)
          /\ rs[2].Length = Len(rs[2].Chain)
          /\ FindLongestChain(chain, difficulty, rs)
                = [chain |-> rs[2].Chain, ret |-> "True"]

\* C8: when some peer's fetch fails, reconcile completes and ends as a
\* reconcile over the peers that answered would.
C8_FailedPeerSkipped ==
    \A rs \in RS :
        (\E i \in DOMAIN rs : ~IsOk(rs[i])) =>
            LET result == FindLongestChain(chain, difficulty, rs)
            IN  /\ result.ret # "Exception"
                /\ result = FindLongestChain(chain, difficulty, SelectSeq(rs, IsOk))

\* C9: a mine_next that finds the pending queue empty returns the
\* no-pending-data result in that step and changes neither the chain, the
\* queue nor the peer set, and one that finds a record goes on to take it; a
\* mine_next whose append is rejected returns the failure result with the
\* chain unchanged; and add_to_chain of a block that does not pass
\* proof_of_work against the tail (its hash is not below the target, there
\* is no tail, or its previous_hash is not the hash of the tail) appends
\* nothing and returns the failure result: it does not raise.
C9_FailuresLeaveChain ==
    [][ /\ (last'.op = "mine" /\ thread' = thread) =>
              /\ last'.ret = "NoPending"
              /\ pending_power_data = <<>>
              /\ UNCHANGED <<chain, pending_power_data, nodes>>
        /\ \A t \in Threads :
              (thread[t].pc = "idle" /\ thread'[t].pc = "pop") =>
                  pending_power_data # <<>>
        /\ (last'.op = "mine" /\ last'.ret = "Failure") => chain' = chain
        /\ \A t \in Threads :
              (/\ thread[t].pc = "check" /\ Stepped(t)
               /\ \/ ~MeetsDifficulty(thread[t].block.hashid, difficulty)
                  \/ chain = <<>>
                  \/ thread[t].block.previous_hash # chain[Len(chain)].hashid) =>
                  /\ last' = [op |-> "mine", ret |-> "Failure"]
                  /\ thread'[t] = Idle
                  /\ chain' = chain
      ]_vars

\* the records of a queue
Records(queue) == { queue[i] : i \in DOMAIN queue }

\* C10: a mine_next whose append is rejected leaves the chain as it was and
\* the record it took from the pending queue in the queue.
C10_RejectKeepsRecord ==
    [][\A t \in Threads :
          (thread[t].pc = "check" /\ Stepped(t) /\ last'.ret = "Failure") =>
              /\ thread[t].block.power_data \in Records(pending_power_data')
              /\ chain' = chain]_vars

\* C11: a step that appends a mined block to a chain of n blocks leaves a
\* chain of n + 1 blocks, the first n as before, and the new one has block
\* number n + 1, the former tail's hash as previous_hash and the record the
\* request took from the queue as telemetry; the step that takes the record
\* takes exactly that one from the queue.
C11_MineAppendsOne ==
    [][\A t \in Threads :
          /\ (thread[t].pc = "append" /\ Stepped(t)) =>
                LET n == Len(chain)
                IN  /\ Len(chain') = n + 1
                    /\ SubSeq(chain', 1, n) = chain
                    /\ chain'[n + 1].block_number = n + 1
                    /\ chain'[n + 1].previous_hash = chain[n].hashid
                    /\ chain'[n + 1].power_data = thread[t].block.power_data
          /\ (thread[t].pc = "pop" /\ thread'[t].pc = "len") =>
                /\ Len(pending_power_data') = Len(pending_power_data) - 1
                /\ thread'[t].data \in Records(pending_power_data)]_vars

\* C12: records enter the pending queue at its end and mine_next takes the
\* one at the end, the most recently queued of those still there; the
\* records before it stay, in their order, and the block mined holds the
\* record taken.
C12_LastInFirstOut ==
    [][/\ (last'.op = "submit" /\ last'.ret = "201") =>
              /\ Len(pending_power_data') = Len(pending_power_data) + 1
              /\ SubSeq(pending_power_data', 1, Len(pending_power_data))
                     = pending_power_data
       /\ \A t \in Threads :
              /\ (thread[t].pc = "pop" /\ thread'[t].pc = "len") =>
                    /\ pending_power_data' =
                           SubSeq(pending_power_data, 1, Len(pending_power_data) - 1)
                    /\ thread'[t].data = pending_power_data[Len(pending_power_data)]
              /\ (thread[t].pc = "len" /\ Stepped(t)) =>
                    thread'[t].data = thread[t].data
              /\ (thread[t].pc = "tail" /\ thread'[t].pc = "check") =>
                    thread'[t].block.power_data = thread[t].data]_vars

\* a request just took the last of three queued records, and the two that
\* stay differ
C12_Witness ==
    \E t \in Threads :
        /\ thread[t].pc = "len"
        /\ Len(pending_power_data) = 2
        /\ pending_power_data[1] # pending_power_data[2]
        /\ thread[t].data.timestamp >= pending_power_data[2].timestamp

\* c is a prefix of e, block for block
IsPrefix(c, e) == Len(c) <= Len(e) /\ SubSeq(e, 1, Len(c)) = c

\* C15: across every step of a submission and of a mine_next, and every step
\* of a reconcile but the one that returns true, the chain before is a
\* prefix of the chain after: every block already there stays in its place
\* with all its fields.
C15_AppendOnly ==
    [][~(last'.op = "reconcile" /\ last'.ret = "True") =>
          IsPrefix(chain, chain')]_vars

\* a reconcile with a registered peer just left a mined chain in place
C15_Witness ==
    /\ last = [op |-> "reconcile", ret |-> "False"]
    /\ nodes # {}
    /\ Len(chain) >= 2
    /\ chain[2].power_data.node_id = "n1"

\* what every step of a submission does: a refusal leaves the pending queue
\* and the chain as they were; a thread that goes on to queue holds a body
\* with every required field and a record built from its fields, with the
\* queue and the chain as they were; and the thread then puts exactly that
\* record at the end of the queue, is accepted, and leaves the chain
C18_Steps ==
    /\ (last'.op = "submit" /\ last'.ret = "400") =>
           UNCHANGED <<pending_power_data, chain>>
    /\ \A t \in Threads :
           (thread[t].pc = "idle" /\ thread'[t].pc = "queue") =>
               /\ HasRequired(thread'[t].body)
               /\ \A field \in required_fields :
                      thread'[t].power_data[field] = thread'[t].body[field]
               /\ UNCHANGED <<pending_power_data, chain>>
    /\ \A t \in Threads :
           (thread[t].pc = "queue" /\ Stepped(t)) =>
               /\ pending_power_data' =
                      Append(pending_power_data, thread[t].power_data)
               /\ last' = [op |-> "submit", ret |-> "201"]
               /\ chain' = chain

\* C18 as stated: a submission is refused only where a required field is
\* missing, so that one holding all of them queues exactly one record.
C18_AllPresentQueues ==
    [][/\ C18_Steps
       /\ (last'.op = "submit" /\ last'.ret = "400") =>
              ~HasRequired(last'.body)]_vars

\* C18 amended: a submission lacking any of the four required fields is
\* refused, with the pending queue and the chain as they were; one holding
\* all of them is refused the same way where building the record raises (the
\* body is no JSON object, or a vector is ragged), and otherwise puts exactly
\* one record, built from its fields, at the end of the queue and is
\* accepted. No step of a submission changes the chain.
C18_SubmitValidates ==
    [][/\ C18_Steps
       /\ (last'.op = "submit" /\ last'.ret = "400") =>
              \/ ~HasRequired(last'.body)
              \/ Raises(last'.body)]_vars

\* a submission holding every required field was just refused while a
\* record is queued and a block mined
C18_Witness ==
    /\ last.op = "submit" /\ last.ret = "400"
    /\ HasRequired(last.body)
    /\ Len(pending_power_data) = 1
    /\ Len(chain) = 2

\* the blocks mine_next can build in this state from a queued record
Candidates ==
    IF chain = <<>> THEN {}
    ELSE { NewBlock(Len(chain) + 1, pending_power_data[i], chain[Len(chain)].hashid, now) :
               i \in DOMAIN pending_power_data, now \in Now }

\* C20: mine on a block at nonce 0 terminates exactly when some nonce gives
\* a digest below 2^(256 - difficulty), and then returns the smallest such
\* nonce: the stored hash is the digest at the retained nonce, it is below
\* the target, and the digest at every smaller nonce is not.
C20_SmallestNonce ==
    \A block \in Candidates :
        /\ MineTerminates(block, difficulty) <=>
               \E n \in 0 .. HashSpace - 1 : MeetsDifficulty(DigestAt(block, n), difficulty)
        /\ MineTerminates(block, difficulty) =>
               LET mined == Mine(block, difficulty)
               IN  /\ mined.hashid = DigestAt(block, mined.nonce)
                   /\ MeetsDifficulty(mined.hashid, difficulty)
                   /\ \A n \in 0 .. mined.nonce - 1 :
                          ~MeetsDifficulty(DigestAt(block, n), difficulty)

\* C16: validate_chain accepts the chain in every state of a ledger that was
\* only submitted to and mined on.
C16_LocalChainValid == ValidateChain(chain, difficulty)

\* C13: block numbers are positional: the block at place i of the chain,
\* counted from 1, has block_number i.
C13_Positional ==
    \A i \in DOMAIN chain : chain[i].block_number = i

\* the telemetry a block holds is none of the records that were submitted
Altered(block) ==
    \A body \in { b \in ConcBodies : HasRequired(b) } : \A now \in 0 .. MaxClock :
        block.power_data # PowerData(body, now)

\* thread t is inside /verify, and the step is one of its audit
Auditing(t) == "before" \in DOMAIN thread[t]
AuditStep(t) ==
    /\ Auditing(t)
    /\ \/ thread'[t].pc # thread[t].pc
       \/ thread'[t].hashable_data # thread[t].hashable_data

\* the step is the one in which the audit of thread t answers
Answers(t) == Auditing(t) /\ thread'[t].pc = "idle" /\ last'.ret = "200"

\* the places in the chain of the blocks the findings name
Flagged(tampering_detected) ==
    { tampering_detected[k].block + 1 : k \in DOMAIN tampering_detected }

\* C17: an audit during which no telemetry is rewritten, over a chain in
\* which at most one mined block holds altered telemetry, answers with
\* findings that name that block and no other, and reports the chain valid
\* exactly when no block holds altered telemetry; on every repetition.
C17_AuditFlagsAltered ==
    [][\A t \in Threads :
          (/\ Answers(t)
           /\ \A k \in DOMAIN thread[t].before :
                  chain[k].power_data = thread[t].before[k].power_data) =>
              LET altered == { k \in 2 .. Len(thread[t].before) : Altered(chain[k]) }
              IN  Cardinality(altered) <= 1 =>
                      /\ Flagged(audit'.tampering_detected) = altered
                      /\ audit'.is_valid <=> altered = {}]_vars

\* C19: no step of an audit changes the telemetry, the previous_hash or the
\* block_number of a block, and when the audit answers every block that was
\* in the chain when it began has the nonce and the hash it had then.
C19_AuditLeavesLedger ==
    [][\A t \in Threads :
          AuditStep(t) =>
              /\ \A k \in DOMAIN chain :
                    /\ chain'[k].power_data = chain[k].power_data
                    /\ chain'[k].block_number = chain[k].block_number
                    /\ Shown(chain'[k].previous_hash) = Shown(chain[k].previous_hash)
              /\ Answers(t) =>
                    \A k \in DOMAIN thread[t].before :
                        /\ chain'[k].nonce = thread[t].before[k].nonce
                        /\ chain'[k].hashid = thread[t].before[k].hashid]_vars

\* C14: with mining and reconciling requests overtaking each other on two
\* threads, a step that appends a mined block is taken only where the tail
\* of the chain at that step is the block whose hash the new block holds as
\* previous_hash.
C14_AppendsOnMinedTail ==
    [][last'.op = "append" =>
          /\ chain # <<>>
          /\ chain' = Append(chain, chain'[Len(chain')])
          /\ chain'[Len(chain')].previous_hash = chain[Len(chain)].hashid]_vars

\* C21: whatever the peers answer, a second reconcile that meets the same
\* answers right after the first returns false and leaves the chain as the
\* first left it.
C21_ReconcileIdempotent ==
    \A rs \in RS :
        LET first == FindLongestChain(chain, difficulty, rs)
            second == FindLongestChain(first.chain, difficulty, rs)
        IN  second = [chain |-> first.chain, ret |-> "False"]

\* how often the record is queued, how many blocks of the chain hold it, and
\* how many requests hold it between the queue and the chain
Queued(queue, record) == Cardinality({ i \in DOMAIN queue : queue[i] = record })
Embedded(c, record) == Cardinality({ i \in DOMAIN c : c[i].power_data = record })
Taken(th, record) ==
    Cardinality({ t \in Threads :
                    \/ th[t].pc \in {"len", "tail"} /\ th[t].data = record
                    \/ th[t].pc \in {"check", "append"} /\ th[t].block.power_data = record })

\* the accepted records that are not in the chain yet
Accepted ==
    Records(pending_power_data)
        \cup { thread[t].data : t \in { u \in Threads : thread[u].pc \in {"len", "tail"} } }
        \cup { thread[t].block.power_data :
                 t \in { u \in Threads : thread[u].pc \in {"check", "append"} } }

\* C22: on a ledger that is only submitted to and mined on, no step loses an
\* accepted record: a record that is pending or held by a mining request
\* before the step is, after it, pending, held or in a block as often in all
\* as before, or once more where the step accepts a submission.
C22_NoSubmissionLost ==
    [][\A record \in Accepted :
          LET before == Queued(pending_power_data, record) + Taken(thread, record)
                            + Embedded(chain, record)
              after == Queued(pending_power_data', record) + Taken(thread', record)
                           + Embedded(chain', record)
          IN  \/ after = before
              \/ last' = [op |-> "submit", ret |-> "201"] /\ after = before + 1]_vars
====
